---- MODULE Spec2Model ----
(***************************************************************************)
(* A model of model_search's SearchCandidateGenerator: the decision that   *)
(* first_time_chief_generate takes for one trial (user suggestion, the     *)
(* ensemble-search disciplines, distillation clone, default search), and   *)
(* what it writes to the per-trial registry (the saved architecture and    *)
(* the number of towers of generator "search_generator"); and of the model *)
(* spec that TaskManager.create_model_spec builds from a trial's towers,   *)
(* as task_manager_test.py exercises it.                                   *)
(***************************************************************************)
EXTENDS Integers, Sequences, FiniteSets, TLC

\* ------------------------------------------------------------------ bounds
MaxTrials == 3
MaxSuggestions == 2
MaxEvery == 3
\* The trials whose chiefs the interleaved specification runs side by side.
MaxWorkers == 2
\* A decision is run a second time only while at most this many trials have
\* started.
MaxRerun == 2
\* The task configurations of a multi-task experiment.
MaxTasks == 2

TrialIds == 1..MaxTrials

\* --------------------------------------------------------------- constants
\* Python's None for an optional trial id (trial ids start at 1).
NoTrial == 0

TrialModes == {"NO_PRIOR", "ENSEMBLE_SEARCH", "DISTILLATION"}

\* EnsembleSpec.ensemble_search_type: NONE is the unset value, UNRECOGNIZED
\* stands for any value none of the is_*_ensemble_search predicates accepts.
EnsembleSearchTypes ==
  {"NONE", "NONADAPTIVE_ENSEMBLE_SEARCH", "ADAPTIVE_ENSEMBLE_SEARCH",
   "RESIDUAL_ENSEMBLE_SEARCH", "INTERMIXED_NONADAPTIVE_ENSEMBLE_SEARCH",
   "UNRECOGNIZED"}

TransferLearningTypes == {"NO_TRANSFER_LEARNING", "SNAPSHOT_TRANSFER_LEARNING"}

ProblemTypes == {"DNN", "CNN"}

BlockNames == {"FULLY_CONNECTED", "CONVOLUTION_3X3"}

\* The i-th architecture the user suggests (a list of block type names): the
\* suggestions alternate, so that neighbours in the list differ.
SuggestedArchitecture(i) ==
  IF i % 2 = 1 THEN <<"FULLY_CONNECTED", "CONVOLUTION_3X3">>
  ELSE <<"CONVOLUTION_3X3">>

\* The lists of user suggestions an experiment is configured with.
UserSuggestionLists ==
  {[i \in 1..k |-> SuggestedArchitecture(i)] : k \in 0..MaxSuggestions}

\* The objective the tuner records for a finished trial (lower is better).
ReportedObjective(id) == (id * 2) % 3

VARIABLES
  phoenix_spec,       \* the configuration, fixed for the experiment
  trials,             \* the trial history the tuner reports (completed trials)
  architectures,      \* registry: trial id -> architecture saved in its directory
  number_of_towers,   \* registry: trial id -> towers recorded for "search_generator"
  results,            \* trial id -> what first_time_chief_generate did for it
  last,               \* the trial id of the latest decision (NoTrial at start)
  writes,             \* the registry writes of the interleaved workers
  pc,                 \* each worker's position and arguments (interleaved)
  reran,              \* the latest step ran a decision a second time
  task_manager_instance,  \* the TaskManager a trial builds its model spec with
  model               \* the latest create_model_spec call: arguments and result

\* The state of the task manager, which the generator never touches.
task_vars == <<task_manager_instance, model>>

vars == <<phoenix_spec, trials, architectures, number_of_towers, results, last,
          writes, pc, reran, task_manager_instance, model>>

\* ------------------------------------------------------- generic helpers
Ids(ts) == {ts[i].id : i \in 1..Len(ts)}

generator_name == "search_generator"

Put(f, k, v) == [x \in (DOMAIN f) \cup {k} |-> IF x = k THEN v ELSE f[x]]

\* ------------------------------------------------------------------------
\* Collaborators of the generator that live outside src/ (block_builder,
\* architecture_utils, trial_utils, the metadata ranking and the search
\* algorithm), modelled from the specification.
\* ------------------------------------------------------------------------

\* block_builder.BlockType[name]: the enum member of that name.
BlockType == [n \in BlockNames |-> n]

IsConvolution(block) == block = "CONVOLUTION_3X3"

IsNotConvolution(block) == ~IsConvolution(block)

\* architecture_utils.fix_architecture_order: the canonical order of an
\* architecture (convolutions first for CNN problems, unchanged otherwise).
fix_architecture_order(architecture, problem_type) ==
  IF problem_type # "CNN"
  THEN architecture
  ELSE SelectSeq(architecture, IsConvolution)
         \o SelectSeq(architecture, IsNotConvolution)

is_nonadaptive_ensemble_search(ensemble_spec) ==
  ensemble_spec.ensemble_search_type = "NONADAPTIVE_ENSEMBLE_SEARCH"

is_adaptive_ensemble_search(ensemble_spec) ==
  ensemble_spec.ensemble_search_type = "ADAPTIVE_ENSEMBLE_SEARCH"

is_residual_ensemble_search(ensemble_spec) ==
  ensemble_spec.ensemble_search_type = "RESIDUAL_ENSEMBLE_SEARCH"

is_intermixed_ensemble_search(ensemble_spec) ==
  ensemble_spec.ensemble_search_type = "INTERMIXED_NONADAPTIVE_ENSEMBLE_SEARCH"

\* trial_utils.get_intermixed_trials: the modulo rule, without the trials
\* that ran a user suggestion.
get_intermixed_trials(trials_arg, n, num_user_suggestions) ==
  LET Keep(trial) == trial.id % n # 0 /\ trial.id > num_user_suggestions
  IN  SelectSeq(trials_arg, Keep)

\* The index in ts of the best trial among the first n (lowest objective,
\* the earliest one on a tie).
RECURSIVE BestIndex(_, _)
BestIndex(ts, n) ==
  IF n = 1 THEN 1
  ELSE LET b == BestIndex(ts, n - 1)
       IN  IF ts[n].objective < ts[b].objective THEN n ELSE b

\* metadata.get_best_k(trials, k=1): <<>> stands for None.
get_best_k(ts) == IF ts = <<>> THEN <<>> ELSE <<ts[BestIndex(ts, Len(ts))]>>

\* search_algorithm.get_suggestion: a pure function of the relevant trials
\* and the trial id. It deepens the architecture with the number of relevant
\* trials and names the best relevant trial as the parent.
get_suggestion(relevant_trials, my_id) ==
  [architecture |-> [i \in 1..(Len(relevant_trials) + 1) |-> "FULLY_CONNECTED"],
   prev_trial |-> IF relevant_trials = <<>> THEN NoTrial
                  ELSE get_best_k(relevant_trials)[1].id]

\* ------------------------------------------------------------------------
\* search_candidate_generator.py
\* ------------------------------------------------------------------------

\* What one call did: the value returned (towers), what it saved as the trial's
\* architecture and recorded as its number of towers (<<>>: nothing), the
\* trials it handed to the search algorithm, and the error it raised.
Outcome(branch, searched, relevant_trials, created) ==
  [branch |-> branch, searched |-> searched,
   relevant_trials |-> relevant_trials,
   towers |-> created.towers, prev_trial |-> created.prev_trial,
   save |-> created.save, count |-> created.count, error |-> <<>>]

Raise(branch, error) ==
  [branch |-> branch, searched |-> FALSE, relevant_trials |-> <<>>,
   towers |-> <<>>, prev_trial |-> NoTrial, save |-> <<>>, count |-> <<>>,
   error |-> error]

_get_trial_from_id(trial_id, trials_arg) ==
  LET Is(trial) == trial.id = trial_id
  IN  SelectSeq(trials_arg, Is)

\* A faulty variant: the parent's weights are taken whatever the transfer
\* learning type.
_create_new_architecture_transferring(architecture, my_id, prev_trial, trials_arg) ==
  LET tower_ ==
        [tower_name |-> generator_name \o "_0",
         architecture |-> architecture,
         model_directory |-> my_id,
         loaded_from |-> NoTrial,
         init_variables_from |->
           IF prev_trial # NoTrial /\ prev_trial > 0
           THEN _get_trial_from_id(prev_trial, trials_arg)[1].id
           ELSE NoTrial]
  IN  [save |-> <<architecture>>, towers |-> <<tower_>>,
       prev_trial |-> prev_trial, count |-> <<1>>]

_create_new_architecture(architecture, my_id, prev_trial, trials_arg) ==
  LET apply_snapshot ==
        phoenix_spec.transfer_learning_spec.transfer_learning_type
          = "SNAPSHOT_TRANSFER_LEARNING"
      tower_ ==
        [tower_name |-> generator_name \o "_0",
         architecture |-> architecture,
         model_directory |-> my_id,
         loaded_from |-> NoTrial,
         init_variables_from |->
           IF prev_trial # NoTrial /\ prev_trial > 0 /\ apply_snapshot
           THEN _get_trial_from_id(prev_trial, trials_arg)[1].id
           ELSE NoTrial]
  IN  [save |-> <<architecture>>, towers |-> <<tower_>>,
       prev_trial |-> prev_trial, count |-> <<1>>]

_get_user_suggestion(trial_id) ==
  LET suggestion == trial_id - 1
      \* Python indexes from 0, sequences from 1.
      architecture == phoenix_spec.user_suggestions[suggestion + 1]
  IN  fix_architecture_order(
        [i \in 1..Len(architecture) |-> BlockType[architecture[i]]],
        phoenix_spec.problem_type)

_suggest_and_create_architecture(branch, relevant_trials, my_id, trials_arg) ==
  LET suggested == get_suggestion(relevant_trials, my_id)
  IN  Outcome(branch, TRUE, relevant_trials,
              _create_new_architecture(suggested.architecture, my_id,
                                       suggested.prev_trial, trials_arg))

\* A faulty variant: the last user suggestion is never tried.
IsUserSuggestionTrialStrict(my_id) == my_id < Len(phoenix_spec.user_suggestions)

\* line 195: the trial runs a user suggestion.
IsUserSuggestionTrial(my_id) == my_id <= Len(phoenix_spec.user_suggestions)

\* lines 196-197
UserSuggestion(my_id, trials_arg) ==
  Outcome("user_suggestion", FALSE, <<>>,
          _create_new_architecture(_get_user_suggestion(my_id), my_id, -1,
                                   trials_arg))

\* A faulty variant: the branches without towers forget to record their count.
NoTowersUnrecorded(branch) ==
  Outcome(branch, FALSE, <<>>,
          [save |-> <<>>, towers |-> << <<>>, <<>> >>, prev_trial |-> NoTrial,
           count |-> <<>>])

\* lines 204-205 and 225-226: set_number_of_towers(name, 0); return [], [].
\* The value returned is the pair of two empty lists, where the other
\* branches return the list of their tower.
NoTowers(branch) ==
  Outcome(branch, FALSE, <<>>,
          [save |-> <<>>, towers |-> << <<>>, <<>> >>, prev_trial |-> NoTrial,
           count |-> <<0>>])

\* A faulty variant: the window slides with the trial instead of resetting.
AdaptiveRelevantTrialsSliding(trials_arg, my_id, every) ==
  LET Keep(trial) == trial.id > my_id - every
  IN  IF every # 0 THEN SelectSeq(trials_arg, Keep) ELSE trials_arg

\* A faulty variant: the window leaves out the trial it starts at.
AdaptiveRelevantTrialsStrict(trials_arg, my_id, every) ==
  LET Keep(trial) == trial.id > (my_id \div every) * every
  IN  IF every # 0 THEN SelectSeq(trials_arg, Keep) ELSE trials_arg

\* lines 210-215: the window of trials the adaptive and residual searches see.
AdaptiveRelevantTrials(trials_arg, my_id, every) ==
  LET Keep(trial) == trial.id >= (my_id \div every) * every
  IN  IF every # 0 THEN SelectSeq(trials_arg, Keep) ELSE trials_arg

\* A faulty variant: the exploitation trials come one trial too far apart.
IsExploitationTrialLongerPeriod(my_id, every) == my_id % (every + 1) = 0

\* A faulty variant: the exploitation trials are taken one trial late.
IsExploitationTrialLate(my_id, every) == (my_id - 1) % every = 0

\* line 224: a non-exploration trial of the intermixed search.
IsExploitationTrial(my_id, every) == my_id % every = 0

\* A faulty variant: the exploitation trials stay in the search algorithm's view.
IntermixedRelevantTrialsUnfiltered(trials_arg, every) == trials_arg

\* line 229: the exploration trials of the intermixed search.
IntermixedRelevantTrials(trials_arg, every) ==
  LET Keep(trial) == trial.id % every # 0
  IN  SelectSeq(trials_arg, Keep)

\* A faulty variant: the default search leaves the user-suggestion trials out.
DefaultSearchWithoutSuggestions(my_id, trials_arg) ==
  LET Keep(trial) == trial.id > Len(phoenix_spec.user_suggestions)
  IN  _suggest_and_create_architecture(
        "default_search", SelectSeq(trials_arg, Keep), my_id, trials_arg)

\* A faulty variant: the default search reads the live history, not its argument.
DefaultSearchOnLiveHistory(my_id, trials_arg) ==
  _suggest_and_create_architecture("default_search", trials, my_id, trials)

\* lines 261-265: the search over the whole history.
DefaultSearch(my_id, trials_arg) ==
  _suggest_and_create_architecture("default_search", trials_arg, my_id,
                                   trials_arg)

\* A faulty variant: an unknown ensemble search type falls back to the default search.
UnknownEnsembleSearchTypeDefaults(my_id, trials_arg) ==
  DefaultSearch(my_id, trials_arg)

\* A faulty variant: the non-adaptive search stops only once there is a history.
NonAdaptiveStopWithHistory(my_id, trials_arg) ==
  IF trials_arg = <<>> THEN DefaultSearch(my_id, trials_arg)
  ELSE NoTowers("nonadaptive_stop")

\* lines 202-205: non-adaptive ensemble search is done searching.
NonAdaptiveStop(my_id, trials_arg) == NoTowers("nonadaptive_stop")

\* A faulty variant: the number of towers is recorded before the type is
\* found to be unknown.
UnknownEnsembleSearchTypeAfterRecording(my_id, trials_arg) ==
  [Raise("unknown_ensemble_search_type",
         <<"ValueError", "Unknown ensemble search type",
           phoenix_spec.ensemble_spec.ensemble_search_type>>)
     EXCEPT !.count = <<0>>]

\* lines 233-235: no discipline accepts the ensemble search type.
UnknownEnsembleSearchType(my_id, trials_arg) ==
  Raise("unknown_ensemble_search_type",
        <<"ValueError", "Unknown ensemble search type",
          phoenix_spec.ensemble_spec.ensemble_search_type>>)

\* lines 199-235: the ensemble search branches.
EnsembleSearch(my_id, trials_arg) ==
  LET ensemble_spec == phoenix_spec.ensemble_spec IN
  IF is_nonadaptive_ensemble_search(ensemble_spec)
  THEN NonAdaptiveStop(my_id, trials_arg)
  ELSE IF is_adaptive_ensemble_search(ensemble_spec)
          \/ is_residual_ensemble_search(ensemble_spec)
  THEN _suggest_and_create_architecture(
         "adaptive_search",
         AdaptiveRelevantTrials(
           trials_arg, my_id,
           ensemble_spec.adaptive_search.increase_width_every),
         my_id, trials_arg)
  ELSE IF is_intermixed_ensemble_search(ensemble_spec)
  THEN LET every == ensemble_spec.intermixed_search.try_ensembling_every IN
       IF every = 0
       THEN Raise("intermixed_search", <<"ZeroDivisionError">>)
       ELSE IF IsExploitationTrial(my_id, every)
       THEN NoTowers("intermixed_skip")
       ELSE _suggest_and_create_architecture(
              "intermixed_search", IntermixedRelevantTrials(trials_arg, every),
              my_id, trials_arg)
  ELSE UnknownEnsembleSearchType(my_id, trials_arg)

\* A faulty variant: only more than one recorded tower fails the assertion.
DistillationCloneUnlessMore(my_id, best_trial) ==
  LET model_dir == best_trial.id
      recorded == IF model_dir \in DOMAIN number_of_towers
                  THEN number_of_towers[model_dir] ELSE 0
      tower_ == [tower_name |-> generator_name \o "_0",
                 architecture |-> <<>>,
                 model_directory |-> my_id,
                 loaded_from |-> model_dir,
                 init_variables_from |-> NoTrial]
  IN  IF recorded > 1
      THEN Raise("distillation_clone", <<"AssertionError">>)
      ELSE Outcome("distillation_clone", FALSE, <<>>,
                   [save |-> <<>>, towers |-> <<tower_>>,
                    prev_trial |-> NoTrial, count |-> <<1>>])

\* A faulty variant: the clone saves an architecture of its own.
DistillationCloneSaving(my_id, best_trial) ==
  LET model_dir == best_trial.id
      recorded == IF model_dir \in DOMAIN number_of_towers
                  THEN number_of_towers[model_dir] ELSE 0
      tower_ == [tower_name |-> generator_name \o "_0",
                 architecture |-> <<>>,
                 model_directory |-> my_id,
                 loaded_from |-> model_dir,
                 init_variables_from |-> NoTrial]
  IN  IF recorded # 1
      THEN Raise("distillation_clone", <<"AssertionError">>)
      ELSE Outcome("distillation_clone", FALSE, <<>>,
                   [save |-> <<<<>>>>, towers |-> <<tower_>>,
                    prev_trial |-> NoTrial, count |-> <<1>>])

\* lines 244-259: the tower of the best trial, loaded into this trial.
DistillationClone(my_id, best_trial) ==
  LET model_dir == best_trial.id
      recorded == IF model_dir \in DOMAIN number_of_towers
                  THEN number_of_towers[model_dir] ELSE 0
      tower_ == [tower_name |-> generator_name \o "_0",
                 architecture |-> <<>>,
                 model_directory |-> my_id,
                 loaded_from |-> model_dir,
                 init_variables_from |-> NoTrial]
  IN  IF recorded # 1
      THEN Raise("distillation_clone", <<"AssertionError">>)
      ELSE Outcome("distillation_clone", FALSE, <<>>,
                   [save |-> <<>>, towers |-> <<tower_>>,
                    prev_trial |-> NoTrial, count |-> <<1>>])

\* A faulty variant: the best trial is looked for in the whole history.
DistillationOverAllTrials(my_id, trials_arg) ==
  LET every == phoenix_spec.ensemble_spec.intermixed_search.try_ensembling_every
  IN  IF every = 0 /\ trials_arg # <<>>
      THEN Raise("distillation_clone", <<"ZeroDivisionError">>)
      ELSE LET best_trial == get_best_k(trials_arg)
           IN  IF best_trial # <<>>
               THEN DistillationClone(my_id, best_trial[1])
               ELSE DefaultSearch(my_id, trials_arg)

\* lines 237-259, falling through to 265.
Distillation(my_id, trials_arg) ==
  LET every == phoenix_spec.ensemble_spec.intermixed_search.try_ensembling_every
  IN  IF every = 0 /\ trials_arg # <<>>
      THEN Raise("distillation_clone", <<"ZeroDivisionError">>)
      ELSE LET relevant_trials ==
                 IF trials_arg = <<>> THEN <<>>
                 ELSE get_intermixed_trials(
                        trials_arg, every, Len(phoenix_spec.user_suggestions))
               best_trial == get_best_k(relevant_trials)
           IN  IF best_trial # <<>>
               THEN DistillationClone(my_id, best_trial[1])
               ELSE DefaultSearch(my_id, trials_arg)

first_time_chief_generate(my_id, trial_mode, trials_arg) ==
  IF IsUserSuggestionTrial(my_id)
  THEN UserSuggestion(my_id, trials_arg)
  ELSE IF trial_mode = "ENSEMBLE_SEARCH"
  THEN EnsembleSearch(my_id, trials_arg)
  ELSE IF trial_mode = "DISTILLATION"
          /\ is_intermixed_ensemble_search(phoenix_spec.ensemble_spec)
  THEN Distillation(my_id, trials_arg)
  ELSE DefaultSearch(my_id, trials_arg)

\* ------------------------------------------------------------------------
\* The state machine
\* ------------------------------------------------------------------------

\* The every field a discipline does not read stays at its default, 0.
EnsembleSpecs ==
  {[ensemble_search_type |-> t,
    adaptive_search |-> [increase_width_every |-> a],
    intermixed_search |-> [try_ensembling_every |-> i]] :
     t \in EnsembleSearchTypes, a \in 0..MaxEvery, i \in 0..MaxEvery}

ReadsAdaptiveSearch(e) ==
  is_adaptive_ensemble_search(e) \/ is_residual_ensemble_search(e)

ConfiguredEnsembleSpecs ==
  {e \in EnsembleSpecs :
     /\ ReadsAdaptiveSearch(e) \/ e.adaptive_search.increase_width_every = 0
     /\ is_intermixed_ensemble_search(e)
          \/ e.intermixed_search.try_ensembling_every = 0}

PhoenixSpecs ==
  [user_suggestions : UserSuggestionLists,
   problem_type : ProblemTypes,
   ensemble_spec : ConfiguredEnsembleSpecs,
   transfer_learning_spec : [transfer_learning_type : TransferLearningTypes]]

Idle == [at |-> "idle", trial_mode |-> "NO_PRIOR", trials |-> <<>>]

Init ==
  /\ phoenix_spec \in PhoenixSpecs
  /\ trials = <<>>
  /\ architectures = <<>>
  /\ number_of_towers = <<>>
  /\ results = <<>>
  /\ last = NoTrial
  /\ writes = {}
  /\ pc = [t \in TrialIds |-> Idle]
  /\ reran = FALSE
  /\ task_manager_instance = <<>>
  /\ model = <<>>

\* A faulty variant: the architecture is saved in the directory of the parent trial.
SavedAtParent(my_id, out) ==
  IF out.prev_trial > 0 THEN out.prev_trial ELSE my_id

\* lines 126 and 151: the records written are those of run_config.model_dir,
\* the directory of trial my_id.
SavedAt(my_id, out) == my_id

Decision(my_id, trial_mode, trials_arg, out) ==
  [my_id |-> my_id, trial_mode |-> trial_mode, trials |-> trials_arg,
   out |-> out]

\* The chief of trial my_id builds its graph for the first time: the whole
\* of first_time_chief_generate on the history reported so far. Trial ids are
\* handed out in order.
Generate(my_id, trial_mode) ==
  /\ my_id = last + 1
  /\ ~reran
  /\ \E out \in {first_time_chief_generate(my_id, trial_mode, trials)} :
       /\ results' = Put(results, my_id,
                         Decision(my_id, trial_mode, trials, out))
       /\ architectures' =
            IF out.save # <<>>
            THEN Put(architectures, SavedAt(my_id, out), out.save[1])
            ELSE architectures
       /\ number_of_towers' =
            IF out.count # <<>>
            THEN Put(number_of_towers, my_id, out.count[1])
            ELSE number_of_towers
  /\ last' = my_id
  /\ reran' = FALSE
  /\ UNCHANGED <<phoenix_spec, trials, writes, pc, task_vars>>

\* The tuner reports a trial that ran to its end, while trials remain to be
\* started.
Complete(id) ==
  /\ id \in DOMAIN results
  /\ results[id].out.error = <<>>
  /\ id \notin Ids(trials)
  /\ last < MaxTrials
  /\ ~reran
  /\ trials' = Append(trials, [id |-> id, objective |-> ReportedObjective(id)])
  /\ reran' = FALSE
  /\ UNCHANGED <<phoenix_spec, architectures, number_of_towers, results, last,
                 writes, pc, task_vars>>

Next ==
  \/ \E my_id \in TrialIds, trial_mode \in TrialModes :
       Generate(my_id, trial_mode)
  \/ \E id \in TrialIds : Complete(id)

Spec == Init /\ [][Next]_vars

\* ------------------------------------------------------------------------
\* The same decision, run by the chiefs of concurrent trials: each trial is a
\* worker of its own, and its registry writes are steps of their own.
\* ------------------------------------------------------------------------

\* What the call of worker t does, from its arguments.
Running(t) == first_time_chief_generate(t, pc[t].trial_mode, pc[t].trials)

At(t, at) == [pc EXCEPT ![t].at = at]

\* One more write of record <<kind, trial>>, by writer.
Written(kind, trial, writer) ==
  writes \cup
    {[kind |-> kind, trial |-> trial, writer |-> writer,
      nth |-> 1 + Cardinality({w \in writes :
                                 w.kind = kind /\ w.trial = trial})]}

\* lines 164-166: the chief of trial t is called with the history so far.
Call(t, trial_mode) ==
  /\ pc[t].at = "idle"
  /\ t = last + 1
  /\ t <= MaxWorkers
  /\ pc' = [pc EXCEPT ![t] = [at |-> "called", trial_mode |-> trial_mode,
                              trials |-> trials]]
  /\ last' = t
  /\ UNCHANGED <<phoenix_spec, trials, architectures, number_of_towers,
                 results, writes, reran, task_vars>>

\* line 126: _save_architecture.
SaveArchitecture(t) ==
  /\ pc[t].at = "called"
  /\ \E out \in {Running(t)} :
       /\ out.error = <<>>
       /\ out.save # <<>>
       /\ architectures' = Put(architectures, SavedAt(t, out), out.save[1])
       /\ writes' = Written("architecture", SavedAt(t, out), t)
  /\ pc' = At(t, "saved")
  /\ UNCHANGED <<phoenix_spec, trials, number_of_towers, results, last, reran,
                 task_vars>>

\* lines 151, 204, 225 and 258: set_number_of_towers, after which the call
\* returns its towers.
SetNumberOfTowers(t) ==
  /\ pc[t].at \in {"called", "saved"}
  /\ \E out \in {Running(t)} :
       /\ pc[t].at = "called" => out.error = <<>> /\ out.save = <<>>
       /\ number_of_towers' = Put(number_of_towers, t, out.count[1])
       /\ results' = Put(results, t,
                         Decision(t, pc[t].trial_mode, pc[t].trials, out))
  /\ writes' = Written("number_of_towers", t, t)
  /\ pc' = At(t, "done")
  /\ UNCHANGED <<phoenix_spec, trials, architectures, last, reran, task_vars>>

\* lines 233-235 and 245-246: the call raises.
Fail(t) ==
  /\ pc[t].at = "called"
  /\ \E out \in {Running(t)} :
       /\ out.error # <<>>
       /\ results' = Put(results, t,
                         Decision(t, pc[t].trial_mode, pc[t].trials, out))
  /\ pc' = At(t, "failed")
  /\ UNCHANGED <<phoenix_spec, trials, architectures, number_of_towers, last,
                 writes, reran, task_vars>>

NextConc ==
  \/ \E t \in TrialIds, trial_mode \in TrialModes : Call(t, trial_mode)
  \/ \E t \in TrialIds : SaveArchitecture(t)
  \/ \E t \in TrialIds : SetNumberOfTowers(t)
  \/ \E t \in TrialIds : Fail(t)
  \/ \E t \in TrialIds : Complete(t)

SpecConc == Init /\ [][NextConc]_vars

\* ------------------------------------------------------------------------
\* A second run of a decision on the inputs of its first run (my_id, the
\* trial mode, the history it was called with), in whatever state the
\* registry and the history are by then. The run ends with the second run.
\* ------------------------------------------------------------------------
Rerun(t) ==
  /\ t \in DOMAIN results
  /\ last <= MaxRerun
  /\ ~reran
  /\ \E out \in {first_time_chief_generate(t, results[t].trial_mode,
                                            results[t].trials)} :
       /\ results' = Put(results, t,
                         Decision(t, results[t].trial_mode, results[t].trials,
                                  out))
       /\ architectures' =
            IF out.save # <<>>
            THEN Put(architectures, SavedAt(t, out), out.save[1])
            ELSE architectures
       /\ number_of_towers' =
            IF out.count # <<>>
            THEN Put(number_of_towers, t, out.count[1])
            ELSE number_of_towers
  /\ reran' = TRUE
  /\ UNCHANGED <<phoenix_spec, trials, last, writes, pc, task_vars>>

NextRerun ==
  \/ Next
  \/ \E t \in TrialIds : Rerun(t)

SpecRerun == Init /\ [][NextRerun]_vars

\* ------------------------------------------------------------------------
\* The registry is a directory of files that other programs can write too.
\* The generator reads one record it has not written itself, the number of
\* towers of the trial it clones (lines 245-246): the runs below add a
\* writer that replaces such a record of a finished trial, once, by a number
\* of towers other than the one its chief recorded.
\* ------------------------------------------------------------------------
OtherNumbersOfTowers == {0, 2}

OverwriteNumberOfTowers(id, n) ==
  /\ is_intermixed_ensemble_search(phoenix_spec.ensemble_spec)
  /\ id \in Ids(trials)
  /\ last < MaxTrials
  /\ \A t \in DOMAIN number_of_towers :
       number_of_towers[t] = results[t].out.count[1]
  /\ number_of_towers' = [number_of_towers EXCEPT ![id] = n]
  /\ UNCHANGED <<phoenix_spec, trials, architectures, results, last, writes,
                 pc, reran, task_vars>>

NextOverwrite ==
  \/ Next
  \/ \E id \in TrialIds, n \in OtherNumbersOfTowers :
       OverwriteNumberOfTowers(id, n)

SpecOverwrite == Init /\ [][NextOverwrite]_vars

\* ------------------------------------------------------------------------
\* task_manager.TaskManager.create_model_spec, as task_manager_test.py calls
\* it. task_manager.py itself lives outside src/: what it does is modelled
\* from the specification and from what the tests assert. Tensors are not
\* modelled: a mapping of tensors is the set of its keys, the graph is the
\* set of the nodes the tests look for.
\* ------------------------------------------------------------------------

\* tf.estimator.ModeKeys
ModeKeys == {"TRAIN", "EVAL", "PREDICT"}

\* test line 106: the tower's logits are the output of Dense(10).
LogitsDimension == 10

\* multi_task_spec { label_name: "label<i>" weight_feature_name: "weight<i>" }
LabelName(i) == "label" \o ToString(i)

WeightName(i) == "weight" \o ToString(i)

\* Entries of a labels mapping that no task reads (test lines 610-613):
\* "not_used", "not_used2", and so on.
NotUsed(i) == IF i = 1 THEN "not_used" ELSE "not_used" \o ToString(i)

\* test lines 658-667: the blocks of the architectures the tasks name.
TaskBlocks ==
  <<"FIXED_OUTPUT_FULLY_CONNECTED_128", "FIXED_OUTPUT_FULLY_CONNECTED_256",
    "FIXED_OUTPUT_FULLY_CONNECTED_512">>

\* test lines 658-667: the architecture of the i-th task, one block for the
\* first task and two for the others.
TaskArchitecture(i) ==
  IF i = 1 THEN <<TaskBlocks[1]>> ELSE <<TaskBlocks[2], TaskBlocks[3]>>

\* How the tasks of an experiment are weighted: not at all, by a feature or
\* by an entry of the labels.
Weightings == {"none", "feature", "label"}

\* The multi_task_spec of n tasks: the last one has the given number of
\* classes, the others as many as the logits; the tasks name their
\* architectures or none does.
MultiTaskSpec(n, weighting, classes, with_architecture) ==
  [i \in 1..n |->
     [label_name |-> LabelName(i),
      number_of_classes |-> IF i = n THEN classes ELSE LogitsDimension,
      weight_feature_name |-> IF weighting = "none" THEN "" ELSE WeightName(i),
      weight_is_a_feature |-> weighting = "feature",
      architecture |-> IF with_architecture THEN TaskArchitecture(i) ELSE <<>>]]

\* Single-task experiments have no multi_task_spec, multi-task experiments
\* have two task configurations or more.
MultiTaskSpecs ==
  {<<>>} \cup {MultiTaskSpec(n, w, c, a) :
                 n \in 2..MaxTasks, w \in Weightings,
                 c \in {LogitsDimension, LogitsDimension \div 2},
                 a \in BOOLEAN}

\* test lines 101-105 and 438-446: TaskManager(spec, loss_fn=...), with one
\* loss function for all tasks or a mapping of them by label name.
TaskManagers ==
  {tm \in [multi_task_spec : MultiTaskSpecs,
           merge_losses_of_multitask : BOOLEAN,
           loss_fn : {"shared", "per_task"}] :
     tm.multi_task_spec = <<>> =>
       tm.loss_fn = "shared" /\ ~tm.merge_losses_of_multitask}

\* The fields of a learning_rate_spec besides learning_rate; the two fields
\* of the decay are set together.
LearningRateSpecs ==
  {lr \in SUBSET {"l2_regularization", "gradient_max_norm",
                  "exponential_decay_steps", "exponential_decay_rate"} :
     "exponential_decay_steps" \in lr <=> "exponential_decay_rate" \in lr}

\* A faulty variant: the log-probabilities are left out.
_default_predictions_fn_without_log(logits, mode, temperature) ==
  IF mode = "PREDICT" /\ temperature # 1 /\ temperature = 0
  THEN [error |-> <<"ZeroDivisionError", "division by zero">>]
  ELSE
  LET new_logits == IF mode = "PREDICT" /\ temperature # 1
                    THEN <<"softmax_temperature_mul", logits,
                           <<1, temperature>>>>
                    ELSE logits
  IN  [predictions |-> <<"argmax", new_logits>>,
       probabilities |-> <<"softmax", new_logits>>]

\* A faulty variant: the logits are handed out as a fourth kind.
_default_predictions_fn_with_logits(logits, mode, temperature) ==
  IF mode = "PREDICT" /\ temperature # 1 /\ temperature = 0
  THEN [error |-> <<"ZeroDivisionError", "division by zero">>]
  ELSE
  LET new_logits == IF mode = "PREDICT" /\ temperature # 1
                    THEN <<"softmax_temperature_mul", logits,
                           <<1, temperature>>>>
                    ELSE logits
  IN  [predictions |-> <<"argmax", new_logits>>,
       probabilities |-> <<"softmax", new_logits>>,
       log_probabilities |-> <<"log_softmax", new_logits>>,
       logits |-> new_logits]

\* test lines 45-63: in PREDICT mode with a temperature other than 1 the
\* logits are multiplied by the constant 1 / temperature, written
\* <<1, temperature>>; the division fails for a temperature of 0.
_default_predictions_fn(logits, mode, temperature) ==
  IF mode = "PREDICT" /\ temperature # 1 /\ temperature = 0
  THEN [error |-> <<"ZeroDivisionError", "division by zero">>]
  ELSE
  LET new_logits == IF mode = "PREDICT" /\ temperature # 1
                    THEN <<"softmax_temperature_mul", logits,
                           <<1, temperature>>>>
                    ELSE logits
  IN  [predictions |-> <<"argmax", new_logits>>,
       probabilities |-> <<"softmax", new_logits>>,
       log_probabilities |-> <<"log_softmax", new_logits>>]

\* The task of a single-task experiment: no label name, no weight, the
\* classes of the logits.
ImplicitTask ==
  [label_name |-> "", number_of_classes |-> LogitsDimension,
   weight_feature_name |-> "", weight_is_a_feature |-> FALSE,
   architecture |-> <<>>]

TasksOf(tm) ==
  IF tm.multi_task_spec = <<>> THEN <<ImplicitTask>> ELSE tm.multi_task_spec

IsMultitask(tm) == tm.multi_task_spec # <<>>

\* The tower a task reads its logits from: "<label>_0_search_generator".
TaskTowerName(task) == task.label_name \o "_0_" \o generator_name

Node(scope, op) == [scope |-> scope, op |-> op]

\* A faulty variant: a weight is looked for in the features and in the labels.
WeightMappingWithFallback(task, features, labels) ==
  features \cup labels.keys

\* The mapping the weight of a task is read from: the keys of the features,
\* or the keys of the labels.
WeightMapping(task, features, labels) ==
  IF task.weight_is_a_feature THEN features ELSE labels.keys

\* The task has a weight that its mapping does not hold.
MissingWeight(task, features, labels) ==
  /\ task.weight_feature_name # ""
  /\ task.weight_feature_name \notin WeightMapping(task, features, labels)

\* A faulty variant: the loss is computed in every mode.
TaskLossInEveryMode(tm, task, mode) ==
  <<[label_name |-> task.label_name,
     loss_fn |-> IF tm.loss_fn = "per_task" THEN task.label_name ELSE "shared",
     weights |-> task.weight_feature_name]>>

\* The loss of one task: <<>> stands for None.
TaskLoss(tm, task, mode) ==
  IF mode = "PREDICT" THEN <<>>
  ELSE <<[label_name |-> task.label_name,
          loss_fn |-> IF tm.loss_fn = "per_task" THEN task.label_name
                      ELSE "shared",
          weights |-> task.weight_feature_name]>>

\* The prediction keys of one task: those of its prediction function, under
\* the task's label name.
TaskPredictions(task, mode) ==
  {kind \o "/" \o task.label_name :
     kind \in DOMAIN _default_predictions_fn(TaskTowerName(task), mode, 1)}

\* The keys every model spec has, whatever its tasks.
DefaultPredictions(tm, mode) ==
  DOMAIN _default_predictions_fn(TaskTowerName(TasksOf(tm)[1]), mode, 1)

\* Logits of another dimension than the task's classes are projected.
TaskProjection(task) ==
  IF task.number_of_classes # LogitsDimension
  THEN {Node(TaskTowerName(task), "maybe_proj")}
  ELSE {}

\* test lines 694-711: the blocks of the architecture a task names are built
\* on its tower, "<tower>/<k>_<block>" for the k-th block.
TaskArchitectureNodes(task) ==
  {Node(TaskTowerName(task), ToString(k) \o "_" \o task.architecture[k]) :
     k \in 1..Len(task.architecture)}

\* test lines 297-305: on a TPU the optimizer sums the gradients over the
\* replicas.
CrossShardOptimizer(use_tpu, mode, scope) ==
  IF use_tpu /\ mode = "TRAIN" THEN {Node(scope, "CrossReplicaSum")} ELSE {}

\* A faulty variant: the gradients are clipped whenever any field is set.
OptimizerPolicyChainClipping(learning_rate_spec, mode, scope) ==
  IF mode # "TRAIN" THEN {}
  ELSE {Node(scope, "l2_weight_loss") :
          f \in {"l2_regularization"} \cap learning_rate_spec}
       \cup {Node(scope, "clip_by_global_norm") : f \in learning_rate_spec}
       \cup {Node(scope, "ExponentialDecay") :
               f \in {"exponential_decay_steps"} \cap learning_rate_spec}

\* The optimizer transforms of one loss: L2 regularization, gradient
\* clipping and learning-rate decay, each under its own field, when training.
OptimizerPolicyChain(learning_rate_spec, mode, scope) ==
  IF mode # "TRAIN" THEN {}
  ELSE {Node(scope, "l2_weight_loss") :
          f \in {"l2_regularization"} \cap learning_rate_spec}
       \cup {Node(scope, "clip_by_global_norm") :
               f \in {"gradient_max_norm"} \cap learning_rate_spec}
       \cup {Node(scope, "ExponentialDecay") :
               f \in {"exponential_decay_steps"} \cap learning_rate_spec}

\* One chain over the sum of the losses when they are merged (and for the
\* single task), else one chain per task under the task's label.
Optimization(tm, learning_rate_spec, mode, use_tpu) ==
  IF ~IsMultitask(tm)
  THEN OptimizerPolicyChain(learning_rate_spec, mode, "")
         \cup CrossShardOptimizer(use_tpu, mode, "")
  ELSE IF tm.merge_losses_of_multitask
  THEN OptimizerPolicyChain(learning_rate_spec, mode, "")
         \cup CrossShardOptimizer(use_tpu, mode, "")
         \cup (IF mode = "TRAIN" THEN {Node("", "gradients/AddN")} ELSE {})
  ELSE UNION {OptimizerPolicyChain(learning_rate_spec, mode,
                                   TasksOf(tm)[i].label_name)
                \cup CrossShardOptimizer(use_tpu, mode,
                                         TasksOf(tm)[i].label_name) :
                i \in 1..Len(TasksOf(tm))}

\* The losses of the tasks, merged or side by side: <<>> stands for None.
AggregateLoss(tm, mode) ==
  LET tasks == TasksOf(tm)
      losses == [i \in 1..Len(tasks) |-> TaskLoss(tm, tasks[i], mode)]
  IN  IF \E i \in 1..Len(tasks) : losses[i] = <<>>
      THEN <<>>
      ELSE <<[merged |-> tm.merge_losses_of_multitask,
              losses |-> [i \in 1..Len(tasks) |-> losses[i][1]]]>>

\* The keys of the merged predictions: those of every task under its label
\* name in a multi-task experiment, and the keys without a label name.
MergePredictions(tm, mode) ==
  LET tasks == TasksOf(tm)
  IN  DefaultPredictions(tm, mode)
        \cup (IF IsMultitask(tm)
              THEN UNION {TaskPredictions(tasks[i], mode) :
                            i \in 1..Len(tasks)}
              ELSE {})

ModelSpec(loss, predictions, nodes) ==
  [error |-> <<>>, loss |-> loss, predictions |-> predictions, nodes |-> nodes]

\* create_model_spec(features, learning_rate_spec, labels, mode, use_tpu,
\* predictions_fn) of task manager tm. The tasks are built in their order,
\* and the first weight that is missing from its mapping ends the call.
create_model_spec(tm, features, learning_rate_spec, labels, mode, use_tpu, predictions_fn) ==
  LET tasks == TasksOf(tm)
      missing == {i \in 1..Len(tasks) :
                    MissingWeight(tasks[i], features, labels)}
      first == CHOOSE i \in missing : \A j \in missing : i <= j
  IN  IF missing # {}
      THEN [error |-> <<"KeyError", tasks[first].weight_feature_name>>,
            loss |-> <<>>, predictions |-> {}, nodes |-> {}]
      ELSE ModelSpec(
             AggregateLoss(tm, mode),
             MergePredictions(tm, mode),
             Optimization(tm, learning_rate_spec, mode, use_tpu)
               \cup UNION {TaskProjection(tasks[i]) : i \in 1..Len(tasks)}
               \cup UNION {TaskArchitectureNodes(tasks[i]) :
                             i \in 1..Len(tasks)})

\* test lines 99-100: PhoenixSpec(problem_type=DNN), everything else unset.
DefaultPhoenixSpec ==
  [user_suggestions |-> <<>>,
   problem_type |-> "DNN",
   ensemble_spec |-> [ensemble_search_type |-> "NONE",
                      adaptive_search |-> [increase_width_every |-> 0],
                      intermixed_search |-> [try_ensembling_every |-> 0]],
   transfer_learning_spec |-> [transfer_learning_type |-> "NO_TRANSFER_LEARNING"]]

\* test lines 544-547 and 615-618: the weights dictionary of the tests,
\* weight1 and weight2 whatever the manager, and one weight per task when
\* there are more tasks.
WeightNames(tm) ==
  {WeightName(i) :
     i \in 1..(IF Len(tm.multi_task_spec) > 2 THEN Len(tm.multi_task_spec)
               ELSE 2)}

\* The weights that are looked up among the labels.
LabelWeights(tm) ==
  {tm.multi_task_spec[i].weight_feature_name :
     i \in {j \in 1..Len(tm.multi_task_spec) :
              ~tm.multi_task_spec[j].weight_is_a_feature}} \ {""}

\* The labels a call is given: one tensor for the single task; for several
\* tasks a mapping with an entry per task and one more per weight that is
\* looked up among the labels (the size create_model_spec insists on, test
\* lines 608-613), be it the weight or an entry no task reads.
LabelsFor(tm) ==
  IF ~IsMultitask(tm)
  THEN {[is_dict |-> FALSE, keys |-> {}]}
  ELSE LET names == {tm.multi_task_spec[i].label_name :
                       i \in 1..Len(tm.multi_task_spec)}
           fill == {NotUsed(i) : i \in 1..Cardinality(LabelWeights(tm))}
       IN  {[is_dict |-> TRUE, keys |-> names \cup LabelWeights(tm)],
            [is_dict |-> TRUE, keys |-> names \cup fill]}

\* The features a call is given: x, with all the weights, the first weight
\* only, or none of them.
FeaturesFor(tm) ==
  {{"x"} \cup W : W \in {{}, WeightNames(tm), WeightNames(tm) \cap {WeightName(1)}}}

\* test lines 99-100 and 651-652: the problem type is DNN or CNN.
TaskPhoenixSpecs ==
  {[DefaultPhoenixSpec EXCEPT !.problem_type = p] : p \in ProblemTypes}

InitTask ==
  /\ phoenix_spec \in TaskPhoenixSpecs
  /\ trials = <<>>
  /\ architectures = <<>>
  /\ number_of_towers = <<>>
  /\ results = <<>>
  /\ last = NoTrial
  /\ writes = {}
  /\ pc = [t \in TrialIds |-> Idle]
  /\ reran = FALSE
  /\ task_manager_instance \in TaskManagers
  /\ model = <<>>

\* The call of create_model_spec that builds the model spec of a graph, as
\* the tests make it.
CreateModelSpec(features, learning_rate_spec, labels, mode, use_tpu, predictions_fn) ==
  /\ model = <<>>
  /\ features \in FeaturesFor(task_manager_instance)
  /\ labels \in LabelsFor(task_manager_instance)
  /\ predictions_fn = "per_task" => IsMultitask(task_manager_instance)
  /\ model' =
       [features |-> features, learning_rate_spec |-> learning_rate_spec,
        labels |-> labels, mode |-> mode, use_tpu |-> use_tpu,
        predictions_fn |-> predictions_fn,
        model_spec |-> create_model_spec(
                         task_manager_instance, features, learning_rate_spec,
                         labels, mode, use_tpu, predictions_fn)]
  /\ UNCHANGED <<phoenix_spec, trials, architectures, number_of_towers,
                 results, last, writes, pc, reran, task_manager_instance>>

NextTask ==
  \E features \in FeaturesFor(task_manager_instance),
     labels \in LabelsFor(task_manager_instance),
     learning_rate_spec \in LearningRateSpecs, mode \in ModeKeys,
     use_tpu \in BOOLEAN, predictions_fn \in {"shared", "per_task"} :
    CreateModelSpec(features, learning_rate_spec, labels, mode, use_tpu,
                    predictions_fn)

SpecTask == InitTask /\ [][NextTask]_vars

\* ------------------------------------------------------------------------
\* The claims
\* ------------------------------------------------------------------------
Decided == DOMAIN results

BeyondSuggestions(id) == id > Len(phoenix_spec.user_suggestions)

SearchType == phoenix_spec.ensemble_spec.ensemble_search_type

IncreaseWidthEvery ==
  phoenix_spec.ensemble_spec.adaptive_search.increase_width_every

TryEnsemblingEvery ==
  phoenix_spec.ensemble_spec.intermixed_search.try_ensembling_every

InEnsembleSearch(id) == results[id].trial_mode = "ENSEMBLE_SEARCH"

\* The relevant trials are the trials of the snapshot with an id in wanted,
\* each once.
HandsOver(out, wanted) ==
  /\ out.searched
  /\ Ids(out.relevant_trials) = wanted
  /\ Len(out.relevant_trials) = Cardinality(wanted)

\* An element of a returned value that is a tower: the empty lists of the
\* pair the stop and skip branches return are none.
IsTower(element) == DOMAIN element # {}

\* The towers in the value a call returned.
TowersOf(out) == SelectSeq(out.towers, IsTower)

\* The pair ([], []) the stop and skip branches return.
EmptyPair == << <<>>, <<>> >>

\* One tower, built from what the search algorithm suggests for the
\* relevant trials.
SearchBasedTower(id, out) ==
  /\ out.error = <<>>
  /\ out.searched
  /\ Len(out.towers) = 1
  /\ out.towers[1].architecture
       = get_suggestion(out.relevant_trials, id).architecture
  /\ out.towers[1].loaded_from = NoTrial

ZeroTowers(out) ==
  /\ out.error = <<>>
  /\ TowersOf(out) = <<>>
  /\ ~out.searched
  /\ out.save = <<>>

\* C1: a trial whose id is at most the number of user suggestions gets
\* exactly one tower, with the architecture of the suggestion of that index
\* (in its canonical block order), whatever the trial mode, the ensemble
\* search type and the history; the search algorithm is not consulted.
C1_UserSuggestionFirst ==
  \A id \in Decided :
    id <= Len(phoenix_spec.user_suggestions) =>
      LET out == results[id].out IN
      /\ out.error = <<>>
      /\ out.branch = "user_suggestion"
      /\ Len(out.towers) = 1
      /\ out.towers[1].architecture
           = fix_architecture_order(phoenix_spec.user_suggestions[id],
                                    phoenix_spec.problem_type)
      /\ out.towers[1].loaded_from = NoTrial
      /\ ~out.searched
      /\ out.relevant_trials = <<>>

\* The second suggestion is tried in ENSEMBLE_SEARCH mode under the
\* non-adaptive discipline, with a history.
C1_Witness ==
  \E id \in Decided :
    /\ id = 2
    /\ id <= Len(phoenix_spec.user_suggestions)
    /\ InEnsembleSearch(id)
    /\ SearchType = "NONADAPTIVE_ENSEMBLE_SEARCH"
    /\ results[id].trials # <<>>
    /\ Len(results[id].out.towers) = 1

\* C2: in ENSEMBLE_SEARCH mode with the adaptive or the residual discipline
\* and increase_width_every = E, a trial beyond the user suggestions hands
\* the search algorithm the trials with id >= floor(my_id / E) * E when
\* E > 0, and the whole history when E = 0.
C2_AdaptiveWindow ==
  \A id \in Decided :
    ( /\ BeyondSuggestions(id)
      /\ InEnsembleSearch(id)
      /\ SearchType \in {"ADAPTIVE_ENSEMBLE_SEARCH", "RESIDUAL_ENSEMBLE_SEARCH"} )
    => LET E == IncreaseWidthEvery
           history == results[id].trials
       IN  IF E > 0
           THEN HandsOver(results[id].out,
                          {t \in Ids(history) : t >= (id \div E) * E})
           ELSE /\ results[id].out.searched
                /\ results[id].out.relevant_trials = history

\* The window cuts a history in two: one trial is in it, one is not.
C2_Witness ==
  \E id \in Decided :
    /\ BeyondSuggestions(id)
    /\ InEnsembleSearch(id)
    /\ SearchType = "RESIDUAL_ENSEMBLE_SEARCH"
    /\ IncreaseWidthEvery > 0
    /\ results[id].out.relevant_trials # <<>>
    /\ Len(results[id].out.relevant_trials) < Len(results[id].trials)

\* C3 as stated: in ENSEMBLE_SEARCH mode with the intermixed discipline and
\* try_ensembling_every = E, every trial with my_id mod E = 0 has no towers.
C3_AsStated ==
  \A id \in Decided :
    ( /\ InEnsembleSearch(id)
      /\ SearchType = "INTERMIXED_NONADAPTIVE_ENSEMBLE_SEARCH"
      /\ TryEnsemblingEvery >= 1
      /\ id % TryEnsemblingEvery = 0 )
    => ZeroTowers(results[id].out)

\* C3, amended: the same for every such trial beyond the user suggestions
\* (a user suggestion is tried first, whatever my_id mod E is).
C3_ExploitationSkips ==
  \A id \in Decided :
    ( /\ BeyondSuggestions(id)
      /\ InEnsembleSearch(id)
      /\ SearchType = "INTERMIXED_NONADAPTIVE_ENSEMBLE_SEARCH"
      /\ TryEnsemblingEvery >= 1
      /\ id % TryEnsemblingEvery = 0 )
    => ZeroTowers(results[id].out)

\* An exploitation trial with E = 2 and a history.
C3_Witness ==
  \E id \in Decided :
    /\ BeyondSuggestions(id)
    /\ InEnsembleSearch(id)
    /\ SearchType = "INTERMIXED_NONADAPTIVE_ENSEMBLE_SEARCH"
    /\ TryEnsemblingEvery = 2
    /\ id % TryEnsemblingEvery = 0
    /\ results[id].trials # <<>>
    /\ results[id].out.towers = EmptyPair

\* C4 as stated: in ENSEMBLE_SEARCH mode with the intermixed discipline and
\* try_ensembling_every = E, every trial with my_id mod E # 0 gets a
\* search-based tower, and the search algorithm sees the trials with
\* id mod E # 0.
C4_AsStated ==
  \A id \in Decided :
    ( /\ InEnsembleSearch(id)
      /\ SearchType = "INTERMIXED_NONADAPTIVE_ENSEMBLE_SEARCH"
      /\ TryEnsemblingEvery >= 1
      /\ id % TryEnsemblingEvery # 0 )
    => /\ SearchBasedTower(id, results[id].out)
       /\ HandsOver(results[id].out,
                    {t \in Ids(results[id].trials) : t % TryEnsemblingEvery # 0})

\* C4, amended: the same for every such trial beyond the user suggestions.
C4_ExplorationSearches ==
  \A id \in Decided :
    ( /\ BeyondSuggestions(id)
      /\ InEnsembleSearch(id)
      /\ SearchType = "INTERMIXED_NONADAPTIVE_ENSEMBLE_SEARCH"
      /\ TryEnsemblingEvery >= 1
      /\ id % TryEnsemblingEvery # 0 )
    => /\ SearchBasedTower(id, results[id].out)
       /\ HandsOver(results[id].out,
                    {t \in Ids(results[id].trials) : t % TryEnsemblingEvery # 0})

\* An exploration trial whose history holds an exploitation trial, which it
\* does not hand over, and an exploration trial, which it does.
C4_Witness ==
  \E id \in Decided :
    /\ BeyondSuggestions(id)
    /\ InEnsembleSearch(id)
    /\ SearchType = "INTERMIXED_NONADAPTIVE_ENSEMBLE_SEARCH"
    /\ TryEnsemblingEvery = 2
    /\ id % TryEnsemblingEvery # 0
    /\ \E t \in Ids(results[id].trials) : t % TryEnsemblingEvery = 0
    /\ results[id].out.relevant_trials # <<>>
    /\ Len(results[id].out.towers) = 1

\* C5 as stated: with the non-adaptive discipline in ENSEMBLE_SEARCH mode
\* there are no towers, for every trial id and every history.
C5_AsStated ==
  \A id \in Decided :
    (InEnsembleSearch(id) /\ SearchType = "NONADAPTIVE_ENSEMBLE_SEARCH")
    => ZeroTowers(results[id].out)

\* C5, amended: there are no towers for every trial id beyond the user
\* suggestions and every history.
C5_NonAdaptiveStops ==
  \A id \in Decided :
    ( /\ BeyondSuggestions(id)
      /\ InEnsembleSearch(id)
      /\ SearchType = "NONADAPTIVE_ENSEMBLE_SEARCH" )
    => ZeroTowers(results[id].out)

\* The non-adaptive discipline stops a trial without a history and a trial
\* with one.
C5_Witness ==
  \E a, b \in Decided :
    /\ SearchType = "NONADAPTIVE_ENSEMBLE_SEARCH"
    /\ BeyondSuggestions(a) /\ InEnsembleSearch(a)
    /\ BeyondSuggestions(b) /\ InEnsembleSearch(b)
    /\ results[a].trials = <<>> /\ results[a].out.towers = EmptyPair
    /\ results[b].trials # <<>> /\ results[b].out.towers = EmptyPair

TowerBranches ==
  {"user_suggestion", "adaptive_search", "intermixed_search",
   "default_search", "distillation_clone"}

NoTowerBranches == {"nonadaptive_stop", "intermixed_skip"}

\* C6: every decision that completes records the number of towers of
\* "search_generator" for its own trial, and the number recorded is the
\* number of towers in the value returned: 1 on the branches that return a
\* tower (user suggestion, search suggestion, distillation clone), 0 on the
\* stop and skip branches, which return a pair of empty lists.
C6_TowerCountRecorded ==
  \A id \in Decided :
    LET out == results[id].out IN
    out.error = <<>> =>
      /\ out.count = <<Len(TowersOf(out))>>
      /\ id \in DOMAIN number_of_towers
      /\ number_of_towers[id] = Len(TowersOf(out))
      /\ out.branch \in TowerBranches \cup NoTowerBranches
      /\ out.branch \in TowerBranches => number_of_towers[id] = 1
      /\ out.branch \in NoTowerBranches => number_of_towers[id] = 0

\* One experiment with a trial that searched, one that skipped and one that
\* cloned.
C6_Witness ==
  \E a, b, c \in Decided :
    /\ results[a].out.branch = "intermixed_search"
    /\ results[b].out.branch = "intermixed_skip"
    /\ results[c].out.branch = "distillation_clone"
    /\ results[c].out.error = <<>>
    /\ number_of_towers[a] = 1
    /\ number_of_towers[b] = 0
    /\ results[b].out.towers = EmptyPair
    /\ number_of_towers[c] = 1

\* The best-trial lookup of the intermixed distillation finds no trial.
LookupFindsNone(id) ==
  \/ results[id].trials = <<>>
  \/ /\ TryEnsemblingEvery >= 1
     /\ get_best_k(get_intermixed_trials(
                     results[id].trials, TryEnsemblingEvery,
                     Len(phoenix_spec.user_suggestions))) = <<>>

FallsThrough(id) ==
  \/ results[id].trial_mode = "NO_PRIOR"
  \/ /\ results[id].trial_mode = "DISTILLATION"
     /\ SearchType # "INTERMIXED_NONADAPTIVE_ENSEMBLE_SEARCH"
  \/ /\ results[id].trial_mode = "DISTILLATION"
     /\ SearchType = "INTERMIXED_NONADAPTIVE_ENSEMBLE_SEARCH"
     /\ LookupFindsNone(id)

\* C7: beyond the user suggestions, when no ensemble search branch and no
\* distillation clone applies (NO_PRIOR, DISTILLATION without the intermixed
\* discipline, or intermixed DISTILLATION whose lookup finds no trial), the
\* search algorithm gets the whole history, unfiltered, and one new tower
\* is created from its suggestion.
C7_DefaultSearchSeesAll ==
  \A id \in Decided :
    (BeyondSuggestions(id) /\ FallsThrough(id)) =>
      LET out == results[id].out IN
      /\ out.branch = "default_search"
      /\ out.relevant_trials = results[id].trials
      /\ SearchBasedTower(id, out)
      /\ out.save = <<out.towers[1].architecture>>

\* An intermixed distillation trial with a history in which the lookup
\* finds nothing, and which searches the whole of it.
C7_Witness ==
  \E id \in Decided :
    /\ BeyondSuggestions(id)
    /\ results[id].trial_mode = "DISTILLATION"
    /\ SearchType = "INTERMIXED_NONADAPTIVE_ENSEMBLE_SEARCH"
    /\ Len(results[id].trials) >= 2
    /\ LookupFindsNone(id)
    /\ results[id].out.relevant_trials = results[id].trials
    /\ Len(results[id].out.towers) = 1

RecognizedSearchTypes ==
  {"NONADAPTIVE_ENSEMBLE_SEARCH", "ADAPTIVE_ENSEMBLE_SEARCH",
   "RESIDUAL_ENSEMBLE_SEARCH", "INTERMIXED_NONADAPTIVE_ENSEMBLE_SEARCH"}

FailsNamingTheType(out) ==
  /\ out.error = <<"ValueError", "Unknown ensemble search type", SearchType>>
  /\ out.towers = <<>>
  /\ ~out.searched

\* C8 as stated: with an unrecognized or unset ensemble search type the
\* decision fails with a ValueError that names the type, and produces no
\* towers.
C8_AsStated ==
  \A id \in Decided :
    SearchType \notin RecognizedSearchTypes
      => FailsNamingTheType(results[id].out)

\* C8, amended: this holds of a trial beyond the user suggestions in
\* ENSEMBLE_SEARCH mode (the ensemble search type is read nowhere else).
C8_UnknownTypeFails ==
  \A id \in Decided :
    ( /\ SearchType \notin RecognizedSearchTypes
      /\ BeyondSuggestions(id)
      /\ InEnsembleSearch(id) )
    => FailsNamingTheType(results[id].out)

\* An unrecognized type fails a trial that has a history.
C8_Witness ==
  \E id \in Decided :
    /\ SearchType = "UNRECOGNIZED"
    /\ BeyondSuggestions(id)
    /\ InEnsembleSearch(id)
    /\ results[id].trials # <<>>
    /\ results[id].out.error # <<>>
    /\ results[id].out.error[1] = "ValueError"

WritesOf(kind, t) == {w \in writes : w.kind = kind /\ w.trial = t}

\* C9: with the trials' chiefs interleaved, each registry record (a trial's
\* architecture, a trial's number of towers) is written once and by the
\* trial that owns it, a trial that returned has written its number of
\* towers, and the only record of another trial that is read (the cloned
\* trial's number of towers) is one whose owner has returned: no trial
\* writes or races on another trial's record.
C9_OwnRecordsWrittenOnce ==
  /\ \A w \in writes : w.writer = w.trial /\ w.nth = 1
  /\ \A t \in TrialIds :
       /\ pc[t].at = "done" =>
            /\ Cardinality(WritesOf("number_of_towers", t)) = 1
            /\ t \in DOMAIN number_of_towers
            /\ results[t].out.save # <<>> =>
                 Cardinality(WritesOf("architecture", t)) = 1
       /\ t \in DOMAIN architectures =>
            /\ pc[t].at \in {"saved", "done"}
            /\ Cardinality(WritesOf("architecture", t)) = 1
       /\ t \in DOMAIN number_of_towers => pc[t].at = "done"
       /\ (pc[t].at = "called" /\ Running(t).branch = "distillation_clone"
             /\ Running(t).error = <<>>) =>
            pc[Running(t).towers[1].loaded_from].at = "done"

\* Two chiefs are between their two writes at the same time.
C9_Witness ==
  \E a, b \in TrialIds :
    /\ a # b
    /\ pc[a].at = "saved"
    /\ pc[b].at = "saved"
    /\ WritesOf("architecture", a) # {}
    /\ WritesOf("architecture", b) # {}

\* ------------------------------------------------------------------------
\* The claims about the model spec
\* ------------------------------------------------------------------------
Called == model # <<>>

Built == Called /\ model.model_spec.error = <<>>

NumberOfTasks == Len(task_manager_instance.multi_task_spec)

PredictionKinds == {"predictions", "probabilities", "log_probabilities"}

TaskLabels ==
  {task_manager_instance.multi_task_spec[i].label_name : i \in 1..NumberOfTasks}

AtLeastOne(n) == IF n < 1 THEN 1 ELSE n

\* C11 as stated: in every mode, a model spec has 3 * max(1, number of
\* tasks) predictions, and the keys without a label name only when there is
\* one task.
C11_AsStated ==
  Built =>
    /\ Cardinality(model.model_spec.predictions) = 3 * AtLeastOne(NumberOfTasks)
    /\ NumberOfTasks > 1 => PredictionKinds \cap model.model_spec.predictions = {}

\* C11, amended: in every mode, a model spec has 3 predictions when there is
\* no task configuration and 3 * (1 + N) with N >= 2 of them: the three
\* kinds under each label name, and the three keys without a label name,
\* which every model spec has.
C11_PredictionsCount ==
  Built =>
    /\ Cardinality(model.model_spec.predictions) =
         IF NumberOfTasks = 0 THEN 3 ELSE 3 * (1 + NumberOfTasks)
    /\ PredictionKinds \subseteq model.model_spec.predictions

\* A model spec of two tasks, built for prediction, and of nine predictions.
C11_Witness ==
  /\ Built
  /\ NumberOfTasks = 2
  /\ model.mode = "PREDICT"
  /\ Cardinality(model.model_spec.predictions) = 9

\* C12: with N >= 2 task configurations the predictions are exactly the keys
\* "<kind>/<label>" of the three kinds and the N labels and the three keys
\* "<kind>", 3 * (1 + N) in all, with one loss or prediction function or one
\* per task, with the losses merged or not.
C12_MultiTaskPredictions ==
  (Built /\ NumberOfTasks >= 2) =>
    /\ model.model_spec.predictions =
         PredictionKinds
           \cup {kind \o "/" \o label : kind \in PredictionKinds,
                                         label \in TaskLabels}
    /\ Cardinality(model.model_spec.predictions) = 3 * (1 + NumberOfTasks)

\* Two tasks with their own loss and prediction functions and merged losses.
C12_Witness ==
  /\ Built
  /\ NumberOfTasks = 2
  /\ task_manager_instance.loss_fn = "per_task"
  /\ task_manager_instance.merge_losses_of_multitask
  /\ model.predictions_fn = "per_task"
  /\ "log_probabilities/label2" \in model.model_spec.predictions
  /\ "log_probabilities" \in model.model_spec.predictions

\* C13: the loss of a model spec is None exactly in PREDICT mode, whatever
\* the learning-rate spec and the merging of the losses: in TRAIN and in
\* EVAL mode it is a value.
C13_LossNoneInPredict ==
  Built => (model.model_spec.loss = <<>> <=> model.mode = "PREDICT")

\* A model spec without a loss, of two tasks with merged losses and with a
\* learning-rate spec that sets a field.
C13_Witness ==
  /\ Built
  /\ model.mode = "PREDICT"
  /\ NumberOfTasks = 2
  /\ task_manager_instance.merge_losses_of_multitask
  /\ model.learning_rate_spec # {}
  /\ model.model_spec.loss = <<>>

HasNode(op) == \E node \in model.model_spec.nodes : node.op = op

\* C14: in TRAIN mode each optimizer transform is in the graph exactly when
\* its own field of the learning-rate spec is set (L2 regularization under
\* l2_regularization, clipping under gradient_max_norm, decay under the
\* exponential_decay fields); in EVAL and PREDICT mode none is, whatever
\* is set.
C14_TransformsByField ==
  Built =>
    IF model.mode = "TRAIN"
    THEN /\ HasNode("l2_weight_loss")
              <=> "l2_regularization" \in model.learning_rate_spec
         /\ HasNode("clip_by_global_norm")
              <=> "gradient_max_norm" \in model.learning_rate_spec
         /\ HasNode("ExponentialDecay")
              <=> "exponential_decay_steps" \in model.learning_rate_spec
    ELSE ~HasNode("l2_weight_loss") /\ ~HasNode("clip_by_global_norm")
           /\ ~HasNode("ExponentialDecay")

\* Training with the decay fields alone: a decay node, no L2 and no
\* clipping node.
C14_Witness ==
  /\ Built
  /\ model.mode = "TRAIN"
  /\ model.learning_rate_spec
       = {"exponential_decay_steps", "exponential_decay_rate"}
  /\ HasNode("ExponentialDecay")
  /\ ~HasNode("clip_by_global_norm")
  /\ ~HasNode("l2_weight_loss")

\* The weights that are not in the mapping weight_is_a_feature selects.
WeightsNotFound ==
  {i \in 1..NumberOfTasks :
     LET task == task_manager_instance.multi_task_spec[i] IN
     /\ task.weight_feature_name # ""
     /\ \/ task.weight_is_a_feature
             /\ task.weight_feature_name \notin model.features
        \/ ~task.weight_is_a_feature
             /\ task.weight_feature_name \notin model.labels.keys}

\* C15: a task's weight is looked up in the features when
\* weight_is_a_feature is true and in the labels when it is false, and
\* nowhere else: create_model_spec fails with a KeyError (for the first
\* task whose weight is not found there) also when the other mapping holds
\* the key, and builds the model spec when every weight is found.
C15_WeightLookupFails ==
  Called =>
    IF WeightsNotFound # {}
    THEN \E i \in WeightsNotFound :
           /\ \A j \in WeightsNotFound : i <= j
           /\ model.model_spec.error =
                <<"KeyError",
                  task_manager_instance.multi_task_spec[i].weight_feature_name>>
    ELSE model.model_spec.error = <<>>

\* The weights are to be labels, and only the features hold them.
C15_Witness ==
  /\ Called
  /\ NumberOfTasks = 2
  /\ ~task_manager_instance.multi_task_spec[1].weight_is_a_feature
  /\ {"weight1", "weight2"} \subseteq model.features
  /\ {"weight1", "weight2"} \cap model.labels.keys = {}
  /\ model.model_spec.error = <<"KeyError", "weight1">>

\* ------------------------------------------------------------------------
\* The claims about the clone, the transfer of weights and the registry
\* ------------------------------------------------------------------------

\* The decision is one of an intermixed distillation beyond the user
\* suggestions.
TakesClonePath(decision) ==
  /\ BeyondSuggestions(decision.my_id)
  /\ decision.trial_mode = "DISTILLATION"
  /\ SearchType = "INTERMIXED_NONADAPTIVE_ENSEMBLE_SEARCH"
  /\ TryEnsemblingEvery >= 1

\* What the top-1 ranking over the intermixed relevant trials of the
\* decision's history returns.
BestRelevant(decision) ==
  get_best_k(get_intermixed_trials(decision.trials, TryEnsemblingEvery,
                                   Len(phoenix_spec.user_suggestions)))

\* The number of towers the registry holds for a trial.
Recorded(id) ==
  IF id \in DOMAIN number_of_towers THEN number_of_towers[id] ELSE 0

Decides(id) == id \notin DOMAIN results /\ id \in DOMAIN results'

\* The decision returns one tower, loaded from trial parent into its own
\* directory, without a search and without a new architecture.
ClonesFrom(decision, parent) ==
  LET out == decision.out IN
  /\ out.error = <<>>
  /\ out.branch = "distillation_clone"
  /\ Len(out.towers) = 1
  /\ out.towers[1].loaded_from = parent
  /\ out.towers[1].model_directory = decision.my_id
  /\ out.towers[1].init_variables_from = NoTrial
  /\ ~out.searched
  /\ out.relevant_trials = <<>>
  /\ out.save = <<>>

\* C16: in DISTILLATION mode under the intermixed discipline, a trial
\* beyond the user suggestions for which the top-1 ranking over the
\* intermixed relevant trials returns a trial gets exactly one tower, loaded
\* from that trial's directory into its own; the search algorithm is not
\* consulted and no architecture is created.
C16_DistillationClones ==
  \A id \in Decided :
    (TakesClonePath(results[id]) /\ BestRelevant(results[id]) # <<>>) =>
      /\ ClonesFrom(results[id], BestRelevant(results[id])[1].id)
      /\ id \notin DOMAIN architectures

\* A clone whose history holds a trial that is not relevant and has a
\* better objective than the one that is cloned.
C16_Witness ==
  \E id \in Decided :
    /\ TakesClonePath(results[id])
    /\ Len(results[id].out.towers) = 1
    /\ results[id].out.towers[1].loaded_from # NoTrial
    /\ \E i \in 1..Len(results[id].trials) :
         /\ results[id].trials[i].id # results[id].out.towers[1].loaded_from
         /\ results[id].trials[i].objective
              < ReportedObjective(results[id].out.towers[1].loaded_from)

\* C17: a decision on the clone path whose best trial has a recorded number
\* of towers other than 1 (more than one, or none) fails its assertion: no
\* tower is loaded or returned, and nothing is recorded.
C17_AssertionOnTowerCount ==
  [][ \A id \in TrialIds :
        ( /\ Decides(id)
          /\ TakesClonePath(results'[id])
          /\ BestRelevant(results'[id]) # <<>>
          /\ Recorded(BestRelevant(results'[id])[1].id) # 1 )
        => /\ results'[id].out.error = <<"AssertionError">>
           /\ results'[id].out.towers = <<>>
           /\ results'[id].out.count = <<>>
           /\ id \notin DOMAIN number_of_towers' ]_vars

\* A decision failed on a best trial whose record holds no tower.
C17_Witness ==
  \E id \in Decided :
    /\ TakesClonePath(results[id])
    /\ results[id].out.error = <<"AssertionError">>
    /\ BestRelevant(results[id]) # <<>>
    /\ Recorded(BestRelevant(results[id])[1].id) = 0

SnapshotTransfer ==
  phoenix_spec.transfer_learning_spec.transfer_learning_type
    = "SNAPSHOT_TRANSFER_LEARNING"

\* C18: a tower starts from the weights of a parent trial exactly when it is
\* a new architecture suggested by the search algorithm together with a
\* parent trial id > 0 and the transfer learning type is SNAPSHOT; the
\* parent is then that trial. A user suggestion has no parent (-1) and
\* starts afresh, under SNAPSHOT too.
C18_SnapshotTransferOnly ==
  \A id \in Decided :
    LET out == results[id].out IN
    out.error = <<>> =>
      /\ out.searched =>
           out.prev_trial = get_suggestion(out.relevant_trials, id).prev_trial
      /\ out.branch = "user_suggestion" => out.prev_trial = -1
      /\ \A i \in 1..Len(TowersOf(out)) :
           /\ TowersOf(out)[i].init_variables_from # NoTrial
                <=> (out.searched /\ out.prev_trial > 0 /\ SnapshotTransfer)
           /\ TowersOf(out)[i].init_variables_from # NoTrial =>
                /\ TowersOf(out)[i].init_variables_from = out.prev_trial
                /\ out.prev_trial \in Ids(results[id].trials)
           /\ out.branch = "user_suggestion" =>
                TowersOf(out)[i].init_variables_from = NoTrial

\* Under SNAPSHOT, a user suggestion tried on a history starts afresh and a
\* searched architecture takes the weights of its parent.
C18_Witness ==
  /\ SnapshotTransfer
  /\ \E a, b \in Decided :
       /\ results[a].out.branch = "user_suggestion"
       /\ results[a].trials # <<>>
       /\ results[a].out.towers[1].init_variables_from = NoTrial
       /\ results[b].out.searched
       /\ results[b].out.towers[1].init_variables_from > 0

\* C19: a decision that ends in an error (the ValueError of an unknown
\* ensemble search type, the failed assertion of the clone path) leaves the
\* registry as it was: no architecture is saved and no number of towers is
\* recorded.
C19_ErrorsLeaveRegistry ==
  [][ \A id \in TrialIds :
        ( /\ Decides(id)
          /\ results'[id].out.error # <<>>
          /\ results'[id].out.error[1] \in {"ValueError", "AssertionError"} )
        => /\ architectures' = architectures
           /\ number_of_towers' = number_of_towers
           /\ id \notin DOMAIN architectures
           /\ id \notin DOMAIN number_of_towers ]_vars

\* A decision failed on a best trial whose record holds two towers, and has
\* no record of its own.
C19_Witness ==
  \E id \in Decided :
    /\ results[id].out.error = <<"AssertionError">>
    /\ Recorded(BestRelevant(results[id])[1].id) = 2
    /\ id \notin DOMAIN architectures
    /\ id \notin DOMAIN number_of_towers

CreateBranches ==
  {"user_suggestion", "adaptive_search", "intermixed_search", "default_search"}

\* C20: the trials with an architecture record are the trials whose decision
\* created a tower from a user suggestion or from a suggestion of the search
\* algorithm, and the record is that tower's architecture; a stop, a skip
\* and a clone save none.
C20_ArchitectureRecords ==
  /\ DOMAIN architectures =
       {id \in Decided : /\ results[id].out.error = <<>>
                         /\ results[id].out.branch \in CreateBranches}
  /\ \A id \in DOMAIN architectures :
       architectures[id] = results[id].out.towers[1].architecture
  /\ \A id \in Decided :
       results[id].out.branch \in NoTowerBranches \cup {"distillation_clone"}
         => id \notin DOMAIN architectures

\* A search with a record, and a skip and a clone without one.
C20_Witness ==
  \E a, b, c \in Decided :
    /\ results[a].out.branch = "intermixed_search"
    /\ a \in DOMAIN architectures
    /\ results[b].out.branch = "intermixed_skip"
    /\ b \notin DOMAIN architectures
    /\ results[c].out.branch = "distillation_clone"
    /\ results[c].out.error = <<>>
    /\ c \notin DOMAIN architectures

\* ------------------------------------------------------------------------
\* The claims on the rhythm of the intermixed search and on the windows
\* ------------------------------------------------------------------------
\* A trial decided in ENSEMBLE_SEARCH mode beyond the user suggestions.
EnsembleSearchTrial(id) ==
  /\ id \in Decided
  /\ BeyondSuggestions(id)
  /\ InEnsembleSearch(id)

ExploitationTrials(run) == {id \in run : ZeroTowers(results[id].out)}

SearchingTrials(run) ==
  {id \in run : results[id].out.error = <<>> /\ results[id].out.searched}

\* C21: with the intermixed search and try_ensembling_every = E >= 1, of
\* any E consecutive trials decided in ENSEMBLE_SEARCH mode beyond the user
\* suggestions exactly one is an exploitation trial (zero towers) and the
\* other E - 1 invoke the search algorithm; with E = 1 every such trial is
\* an exploitation trial and none invokes the search algorithm.
C21_OneExploitationInEvery ==
  (is_intermixed_ensemble_search(phoenix_spec.ensemble_spec)
     /\ TryEnsemblingEvery >= 1)
    => LET E == TryEnsemblingEvery
       IN  /\ \A first \in TrialIds :
                 LET run == first..(first + E - 1)
                 IN  (\A id \in run : EnsembleSearchTrial(id))
                       => /\ Cardinality(ExploitationTrials(run)) = 1
                          /\ Cardinality(SearchingTrials(run)) = E - 1
                          /\ ExploitationTrials(run) \cap SearchingTrials(run)
                               = {}
           /\ E = 1 => \A id \in Decided :
                          EnsembleSearchTrial(id)
                            => /\ ZeroTowers(results[id].out)
                               /\ ~results[id].out.searched

\* Three consecutive trials with E = 2: a search, an exploitation trial
\* and a search again.
C21_Witness ==
  /\ is_intermixed_ensemble_search(phoenix_spec.ensemble_spec)
  /\ TryEnsemblingEvery = 2
  /\ \A id \in 1..3 : EnsembleSearchTrial(id)
  /\ ExploitationTrials(1..3) = {2}
  /\ SearchingTrials(1..3) = {1, 3}

\* sub is seq with some of its elements left out: nothing invented,
\* duplicated or reordered.
RECURSIVE IsSubSeq(_, _)
IsSubSeq(sub, seq) ==
  IF sub = <<>> THEN TRUE
  ELSE IF seq = <<>> THEN FALSE
  ELSE IF Head(sub) = Head(seq) THEN IsSubSeq(Tail(sub), Tail(seq))
  ELSE IsSubSeq(sub, Tail(seq))

WindowStart(my_id, every) == (my_id \div every) * every

\* The trials decided by the adaptive or the residual search.
Windowed == {id \in Decided : results[id].out.branch = "adaptive_search"}

Visible(id) == Ids(results[id].out.relevant_trials)

Hidden(id) == Ids(results[id].trials) \ Visible(id)

\* C22: whenever the search algorithm is invoked, the relevant trials are
\* a sub-sequence of the supplied history; and for the adaptive and the
\* residual search with increase_width_every = E > 0 the window start
\* floor(my_id / E) * E is at most my_id, does not decrease with my_id and
\* is 0 (the full history is relevant) when my_id < E, so that a trial of
\* an earlier window is not visible to a trial of a later window, and a
\* trial hidden from one trial stays hidden from the later ones.
C22_RelevantTrialsWindow ==
  /\ \A id \in Decided :
       results[id].out.searched
         => IsSubSeq(results[id].out.relevant_trials, results[id].trials)
  /\ IncreaseWidthEvery > 0
       => LET E == IncreaseWidthEvery
          IN  /\ \A id \in Windowed :
                   /\ results[id].out.searched
                   /\ WindowStart(id, E) <= id
                   /\ id < E
                        => /\ WindowStart(id, E) = 0
                           /\ results[id].out.relevant_trials
                                = results[id].trials
                   /\ \A t \in Ids(results[id].trials) :
                        WindowStart(t, E) < WindowStart(id, E)
                          => t \notin Visible(id)
              /\ \A a, b \in Windowed :
                   a <= b => /\ WindowStart(a, E) <= WindowStart(b, E)
                             /\ Hidden(a) \cap Visible(b) = {}

\* With E = 3, trial 2 is in the first window and sees trial 1; trial 3
\* opens the next window and sees neither trial 1 nor trial 2.
C22_Witness ==
  /\ IncreaseWidthEvery = 3
  /\ {2, 3} \subseteq Windowed
  /\ Visible(2) = {1}
  /\ Ids(results[3].trials) = {1, 2}
  /\ Visible(3) = {}

====
